---- MODULE Spec2Model ----
(***************************************************************************)
(* PageRank (pagerank.py): the transition model, the sampling estimator    *)
(* and the iterative solver.  Python floats are modelled by exact          *)
(* rationals, so "sums to 1" and "< 0.001" mean what they say.             *)
(*                                                                         *)
(* Pages are the integers 1..k; a corpus is a function from its pages to   *)
(* the set of pages each links to.  corpus.keys() iterates in insertion    *)
(* order, modelled as 1, 2, ..., k.                                        *)
(***************************************************************************)
EXTENDS Integers, Sequences, FiniteSets, TLC

VARIABLES corpus, damping_factor, pc, outcome,
          page, probability,
          n, sample, dict_page,
          pagerank, prev_rank, flg, idx, run, first_result

vars == <<corpus, damping_factor, pc, outcome, page, probability,
          n, sample, dict_page, pagerank, prev_rank, flg, idx, run, first_result>>

(***************************************************************************)
(* Bounds of the model.                                                    *)
(***************************************************************************)
\* largest number of pages of the exhaustively enumerated corpora
MaxNodes == 3
\* largest sample count n given to sample_pagerank
MaxN == 2
\* largest number of pages of the corpora enumerated for the sampler and under fairness
MaxSmallNodes == 2

(***************************************************************************)
(* Inputs.                                                                 *)
(***************************************************************************)
\* damping factors as <<numerator, denominator>>: 1/2 and DAMPING = 0.85
Dampings == {<<1, 2>>, <<17, 20>>}

\* what crawl() can return on k pages: every link target is a page, no page links to itself
CorporaOn(k) == {c \in [1..k -> SUBSET (1..k)] :
                    \A p \in 1..k : p \notin c[p]}

Corpora == UNION {CorporaOn(k) : k \in 0..MaxNodes}

NonEmptyCorpora == {c \in Corpora : DOMAIN c # {}}

\* three pages, 36 rounds at damping factor 0.85
SlowCorpus == <<{3}, {3}, {2}>>

\* five pages; page 2 has no links
LargerCorpus == <<{4}, {}, {2, 5}, {3, 5}, {2}>>

\* the corpora of few pages, and two larger ones
SmallCorpora == UNION {CorporaOn(k) : k \in 0..MaxSmallNodes}
                   \cup {SlowCorpus, LargerCorpus}

\* len(corpus.keys())
NumPages(c) == Cardinality(DOMAIN c)

(***************************************************************************)
(* Small exact rationals <<num, den>> in lowest terms, den > 0 (the        *)
(* transition probabilities and the sample frequencies).                   *)
(***************************************************************************)
RECURSIVE Gcd(_, _)
Gcd(a, b) == IF b = 0 THEN a ELSE Gcd(b, a % b)

Abs(x) == IF x < 0 THEN -x ELSE x

Q(a, b) == LET g == Gcd(Abs(a), Abs(b))
               s == IF b < 0 THEN -1 ELSE 1
           IN  <<s * (a \div g), s * (b \div g)>>

QAdd(x, y) == Q(x[1] * y[2] + y[1] * x[2], x[2] * y[2])
QSub(x, y) == Q(x[1] * y[2] - y[1] * x[2], x[2] * y[2])
QMul(x, y) == Q(x[1] * y[1], x[2] * y[2])
QDivInt(x, m) == Q(x[1], x[2] * m)
QLess(x, y) == x[1] * y[2] < y[1] * x[2]
QZero == <<0, 1>>
QOne == <<1, 1>>

RECURSIVE QSum(_, _)
QSum(f, S) == IF S = {} THEN QZero
              ELSE LET p == CHOOSE q \in S : TRUE
                   IN  QAdd(f[p], QSum(f, S \ {p}))

(***************************************************************************)
(* transition_model(corpus, page, damping_factor)                          *)
(***************************************************************************)
\* prob_link is bound only in the else branch (line 68)
Unbound == <<0, 0>>

\* the branches of line 71 exchanged
InAvailFlipped(p, avail) == p \notin avail

\* line 71: `if page in avail`
InAvail(p, avail) == p \in avail

\* damping_factor in place of 1 - damping_factor
ProbPageDamped(d, k) == QDivInt(d, k)

\* line 67: (1-damping_factor)/len(corpus.keys())
ProbPage(d, k) == QDivInt(QSub(QOne, d), k)

TransitionModel(c, pg, d) ==
    LET avail == c[pg]
        k == NumPages(c)
        m == Cardinality(avail)
        prob_page == IF m = 0 THEN Q(1, k)
                     ELSE ProbPage(d, k)
        prob_link == IF m = 0 THEN Unbound ELSE QDivInt(d, m)
        \* reading prob_link while it is unbound raises UnboundLocalError
        raises == \E p \in DOMAIN c : InAvail(p, avail) /\ prob_link = Unbound
    IN  [raised |-> raises,
         value  |-> IF raises THEN <<>>
                    ELSE [p \in DOMAIN c |->
                            IF InAvail(p, avail) THEN QAdd(prob_page, prob_link)
                            ELSE prob_page]]

NoMap == <<>>

\* the variables a call of one function leaves untouched are those of the other two
TMIdle == page = 0 /\ probability = NoMap
SampleIdle == n = 0 /\ sample = <<>> /\ dict_page = NoMap
IterIdle == /\ pagerank = NoMap /\ prev_rank = NoMap /\ flg = NoMap
            /\ run = 0 /\ first_result = NoMap

InitTM ==
    /\ corpus \in NonEmptyCorpora
    /\ damping_factor \in Dampings
    /\ page \in DOMAIN corpus
    /\ pc = "tm_call"
    /\ outcome = "none"
    /\ probability = NoMap
    /\ idx = 0
    /\ SampleIdle
    /\ IterIdle

TransitionModelCall ==
    /\ pc = "tm_call"
    /\ LET r == TransitionModel(corpus, page, damping_factor)
       IN  /\ probability' = r.value
           /\ outcome' = IF r.raised THEN "UnboundLocalError" ELSE "returned"
    /\ pc' = "tm_done"
    /\ UNCHANGED <<corpus, damping_factor, page, n, sample, dict_page,
                   pagerank, prev_rank, flg, idx, run, first_result>>

NextTM == TransitionModelCall

SpecTM == InitTM /\ [][NextTM]_vars

(***************************************************************************)
(* sample_pagerank(corpus, damping_factor, n)                              *)
(***************************************************************************)
InitSample ==
    /\ corpus \in SmallCorpora
    /\ damping_factor \in Dampings
    /\ n \in -1..MaxN
    /\ pc = "s_start"
    /\ outcome = "none"
    /\ sample = <<>>
    /\ dict_page = NoMap
    /\ idx = 0
    /\ TMIdle
    /\ IterIdle

\* lines 91-93: random.choice(list(corpus.keys())) raises IndexError on an empty list
SampleChoose ==
    /\ pc = "s_start"
    /\ IF DOMAIN corpus = {}
       THEN /\ outcome' = "IndexError"
            /\ pc' = "s_raised"
            /\ UNCHANGED sample
       ELSE /\ \E first \in DOMAIN corpus : sample' = <<first>>
            /\ pc' = "s_loop"
            /\ UNCHANGED outcome
    /\ UNCHANGED <<corpus, damping_factor, page, probability, n, dict_page,
                   pagerank, prev_rank, flg, idx, run, first_result>>

\* range(n - 1) in place of range(n)
MoreSamplesOffByOne(i, count) == i < count - 1

\* line 96: `for i in range(n)` has another i
MoreSamples(i, count) == i < count

\* line 99: np.random.choice(a, p=...) can return exactly the entries of positive probability
Support(probabilities) == {p \in DOMAIN probabilities : probabilities[p][1] > 0}

\* lines 97-100: one pass of the loop body; sample[i] is sample[idx + 1] here
SampleStep ==
    /\ pc = "s_loop"
    /\ MoreSamples(idx, n)
    /\ LET current_page == sample[idx + 1]
           r == TransitionModel(corpus, current_page, damping_factor)
       IN  IF r.raised
           THEN /\ outcome' = "UnboundLocalError"
                /\ pc' = "s_raised"
                /\ UNCHANGED <<sample, idx>>
           ELSE IF QSum(r.value, DOMAIN r.value) # QOne
           THEN \* numpy: "probabilities do not sum to 1"
                /\ outcome' = "ValueError"
                /\ pc' = "s_raised"
                /\ UNCHANGED <<sample, idx>>
           ELSE /\ \E next_page \in Support(r.value) :
                      sample' = Append(sample, next_page)
                /\ idx' = idx + 1
                /\ UNCHANGED <<outcome, pc>>
    /\ UNCHANGED <<corpus, damping_factor, page, probability, n, dict_page,
                   pagerank, prev_rank, flg, run, first_result>>

\* sample.count(page)
Count(s, p) == Cardinality({j \in 1..Len(s) : s[j] = p})

\* line 104: sample.count(page)/len(sample)
Frequency(s, p) == Q(Count(s, p), Len(s))

\* lines 102-105
SampleFinish ==
    /\ pc = "s_loop"
    /\ ~MoreSamples(idx, n)
    /\ dict_page' = [p \in DOMAIN corpus |-> Frequency(sample, p)]
    /\ outcome' = "returned"
    /\ pc' = "s_done"
    /\ UNCHANGED <<corpus, damping_factor, page, probability, n, sample,
                   pagerank, prev_rank, flg, idx, run, first_result>>

NextSample == SampleChoose \/ SampleStep \/ SampleFinish

SpecSample == InitSample /\ [][NextSample]_vars

(***************************************************************************)
(* Exact arithmetic for the ranks of iterate_pagerank.  The denominators   *)
(* grow with every round, so numerators are natural numbers of arbitrary   *)
(* size: little-endian sequences of limbs in base Base, without leading    *)
(* zero limbs (zero is the empty sequence).  The operations are functions  *)
(* so that their arguments are evaluated once, before the call.            *)
(***************************************************************************)
Base == 1000000

Big == Seq(Nat)

BMulFrom[x \in Big, m \in Nat, i \in Nat, carry \in Nat] ==
    IF i > Len(x) THEN (IF carry = 0 THEN <<>> ELSE <<carry>>)
    ELSE <<(x[i] * m + carry) % Base>>
            \o BMulFrom[x, m, i + 1, (x[i] * m + carry) \div Base]

\* x * m for a small natural m (m * Base fits a machine integer)
BMul(x, m) == IF m = 0 THEN <<>> ELSE BMulFrom[x, m, 1, 0]

RECURSIVE ChunkExp(_, _, _)
\* the largest j in 1..e with pow * m^j <= 2000 (or 1): a limb times m^j fits a machine integer
ChunkExp(m, pow, e) == IF e <= 1 \/ pow * m * m > 2000 THEN 1
                       ELSE 1 + ChunkExp(m, pow * m, e - 1)

RECURSIVE Pow(_, _)
Pow(m, j) == IF j = 0 THEN 1 ELSE m * Pow(m, j - 1)

\* x * m^e
BMulPow[x \in Big, m \in Nat, e \in Nat] ==
    IF e = 0 \/ m = 1 THEN x
    ELSE BMulPow[BMul(x, Pow(m, ChunkExp(m, 1, e))), m, e - ChunkExp(m, 1, e)]

BAddFrom[x \in Big, y \in Big, i \in Nat, carry \in Nat] ==
    IF i > Len(x) /\ i > Len(y) THEN (IF carry = 0 THEN <<>> ELSE <<carry>>)
    ELSE LET t == (IF i <= Len(x) THEN x[i] ELSE 0)
                  + (IF i <= Len(y) THEN y[i] ELSE 0) + carry
         IN  <<t % Base>> \o BAddFrom[x, y, i + 1, t \div Base]

BAdd(x, y) == BAddFrom[x, y, 1, 0]

BLessFrom[x \in Big, y \in Big, i \in Nat] ==
    IF i = 0 THEN FALSE
    ELSE IF x[i] # y[i] THEN x[i] < y[i]
    ELSE BLessFrom[x, y, i - 1]

BLessF[x \in Big, y \in Big] ==
    IF Len(x) # Len(y) THEN Len(x) < Len(y) ELSE BLessFrom[x, y, Len(x)]

BLess(x, y) == BLessF[x, y]

BStrip[x \in Big] ==
    IF x # <<>> /\ x[Len(x)] = 0 THEN BStrip[SubSeq(x, 1, Len(x) - 1)] ELSE x

BSubFrom[x \in Big, y \in Big, i \in Nat, borrow \in Nat] ==
    IF i > Len(x) THEN <<>>
    ELSE LET t == x[i] - (IF i <= Len(y) THEN y[i] ELSE 0) - borrow
         IN  IF t < 0 THEN <<t + Base>> \o BSubFrom[x, y, i + 1, 1]
             ELSE <<t>> \o BSubFrom[x, y, i + 1, 0]

\* |x - y|
BDistF[x \in Big, y \in Big] ==
    IF BLessF[x, y] THEN BStrip[BSubFrom[y, x, 1, 0]] ELSE BStrip[BSubFrom[x, y, 1, 0]]

BDist(x, y) == BDistF[x, y]

BOfInt(i) == IF i = 0 THEN <<>> ELSE <<i>>

(***************************************************************************)
(* A rank is [num, a, b], the rational num / (k * Lcm^a * dd^b), where k   *)
(* is the number of pages, Lcm the least common multiple of 1..k and dd    *)
(* the denominator of the damping factor: dividing by a number of links    *)
(* raises a, multiplying by the damping factor raises b.                   *)
(***************************************************************************)
Rank == [num : Big, a : Nat, b : Nat]

RECURSIVE LcmUpTo(_)
LcmUpTo(k) == IF k <= 1 THEN 1
              ELSE (LcmUpTo(k - 1) \div Gcd(LcmUpTo(k - 1), k)) * k

Lcm == LcmUpTo(NumPages(corpus))

RDen(a, b) == BMulPow[BMulPow[BOfInt(NumPages(corpus)), Lcm, a], damping_factor[2], b]

\* the numerator of x over the denominator of level (a, b), a >= x.a, b >= x.b
RLift[x \in Rank, a \in Nat, b \in Nat] ==
    BMulPow[BMulPow[x.num, Lcm, a - x.a], damping_factor[2], b - x.b]

Max(i, j) == IF i < j THEN j ELSE i

RZero == [num |-> <<>>, a |-> 0, b |-> 0]
ROne == [num |-> BOfInt(NumPages(corpus)), a |-> 0, b |-> 0]

\* x / m, for m in 1..k
RDivF[x \in Rank, m \in Nat] ==
    [num |-> BMul(x.num, Lcm \div m), a |-> x.a + 1, b |-> x.b]

RDiv(x, m) == RDivF[x, m]

\* damping_factor * x
RDampF[x \in Rank] ==
    [num |-> BMul(x.num, damping_factor[1]), a |-> x.a, b |-> x.b + 1]

RDamp(x) == RDampF[x]

\* 1 - damping_factor
ROneMinusDamping ==
    [num |-> BOfInt(NumPages(corpus) * (damping_factor[2] - damping_factor[1])),
     a |-> 0, b |-> 1]

RAddF[x \in Rank, y \in Rank] ==
    [num |-> BAdd(RLift[x, Max(x.a, y.a), Max(x.b, y.b)],
                  RLift[y, Max(x.a, y.a), Max(x.b, y.b)]),
     a |-> Max(x.a, y.a), b |-> Max(x.b, y.b)]

RAdd(x, y) == RAddF[x, y]

REqF[x \in Rank, y \in Rank] ==
    RLift[x, Max(x.a, y.a), Max(x.b, y.b)] = RLift[y, Max(x.a, y.a), Max(x.b, y.b)]

REq(x, y) == REqF[x, y]

\* the numerator of |x - y| over the denominator of the higher level of the two
RDistNum[x \in Rank, y \in Rank] ==
    BDist(RLift[x, Max(x.a, y.a), Max(x.b, y.b)], RLift[y, Max(x.a, y.a), Max(x.b, y.b)])

\* |x - y| < c / e, for small naturals c and e
RDistLessF[x \in Rank, y \in Rank, c \in Nat, e \in Nat] ==
    BLess(BMul(RDistNum[x, y], e), BMul(RDen(Max(x.a, y.a), Max(x.b, y.b)), c))

RDistLess(x, y, c, e) == RDistLessF[x, y, c, e]

(***************************************************************************)
(* iterate_pagerank(corpus, damping_factor)                                *)
(***************************************************************************)
InitIter ==
    /\ corpus \in Corpora
    /\ damping_factor \in Dampings
    /\ pc = "i_start"
    /\ outcome = "none"
    /\ idx = 0
    /\ TMIdle
    /\ SampleIdle
    /\ IterIdle

\* lines 121-126
IterInit ==
    /\ pc = "i_start"
    /\ pagerank' = [p \in DOMAIN corpus |-> RDiv(ROne, NumPages(corpus))]
    /\ prev_rank' = pagerank'
    /\ flg' = [p \in DOMAIN corpus |-> FALSE]
    /\ idx' = 0
    /\ run' = 1
    /\ pc' = "i_update"
    /\ UNCHANGED <<corpus, damping_factor, outcome, page, probability,
                   n, sample, dict_page, first_result>>

\* lines 135-136 left out
PageLinksAsStored(q) == corpus[q]

\* lines 135-136: a page without links counts as linking to every page
PageLinks(q) == IF Cardinality(corpus[q]) = 0 THEN DOMAIN corpus ELSE corpus[q]

\* line 138 reading the map being written
ReadRankInPlace(q) == pagerank[q]

\* line 138: the rank read for prev_page
ReadRank(q) == prev_rank[q]

RECURSIVE Prob2From(_, _)
\* lines 133-138: prob_2 accumulated over corpus.items() from the q-th item on
Prob2From(p, q) ==
    IF q > NumPages(corpus) THEN RZero
    ELSE IF p \in PageLinks(q)
         THEN RAdd(RDiv(ReadRank(q), Cardinality(PageLinks(q))), Prob2From(p, q + 1))
         ELSE Prob2From(p, q + 1)

\* lines 131-140
FinalProb(p) ==
    LET prob_1 == RDiv(ROneMinusDamping, NumPages(corpus))
        prob_2 == Prob2From(p, 1)
    IN  RAdd(prob_1, RDamp(prob_2))

\* lines 130-141: the body of `for page in corpus.keys()` for the next page
UpdatePage ==
    /\ pc = "i_update"
    /\ idx < NumPages(corpus)
    /\ pagerank' = [pagerank EXCEPT ![idx + 1] = FinalProb(idx + 1)]
    /\ idx' = idx + 1
    /\ UNCHANGED <<corpus, damping_factor, pc, outcome, page, probability,
                   n, sample, dict_page, prev_rank, flg, run, first_result>>

\* line 144: abs(prev_rank[page] - pagerank[page]) < 0.001
WithinThreshold(x, y) == RDistLess(x, y, 1, 1000)

\* any(flg.values()) in place of all(flg.values())
AnyFlagged(f) == \E p \in DOMAIN f : f[p]

\* line 148: all(flg.values())
AllFlagged(f) == \A p \in DOMAIN f : f[p]

\* line 150 left out
KeepRank(prev, cur) == prev

\* line 150: prev_rank = pagerank.copy()
CopyRank(prev, cur) == cur

\* lines 143-151
CheckConverged ==
    /\ pc = "i_update"
    /\ idx = NumPages(corpus)
    /\ flg' = [p \in DOMAIN prev_rank |-> WithinThreshold(prev_rank[p], pagerank[p])]
    /\ IF AllFlagged(flg')
       THEN /\ pc' = "i_done"
            /\ outcome' = "returned"
            /\ UNCHANGED <<prev_rank, idx>>
       ELSE /\ prev_rank' = CopyRank(prev_rank, pagerank)
            /\ idx' = 0
            /\ UNCHANGED <<pc, outcome>>
    /\ UNCHANGED <<corpus, damping_factor, page, probability,
                   n, sample, dict_page, pagerank, run, first_result>>

NextIter == IterInit \/ UpdatePage \/ CheckConverged

SpecIter == InitIter /\ [][NextIter]_vars

InitFair ==
    /\ corpus \in SmallCorpora
    /\ damping_factor \in Dampings
    /\ pc = "i_start"
    /\ outcome = "none"
    /\ idx = 0
    /\ TMIdle
    /\ SampleIdle
    /\ IterIdle

\* the loop is not suspended: a step that can be taken is taken
FairIter == InitFair /\ [][NextIter]_vars /\ WF_vars(NextIter)

(***************************************************************************)
(* The solver's loop started again from the map a first run returned       *)
(* (lines 125-151 with pagerank = the returned map instead of the uniform  *)
(* one).                                                                   *)
(***************************************************************************)
InitRestart ==
    /\ corpus \in NonEmptyCorpora \cup {LargerCorpus}
    /\ damping_factor \in Dampings
    /\ pc = "i_start"
    /\ outcome = "none"
    /\ idx = 0
    /\ TMIdle
    /\ SampleIdle
    /\ IterIdle

Restart ==
    /\ pc = "i_done"
    /\ run = 1
    /\ first_result' = pagerank
    /\ prev_rank' = pagerank
    /\ flg' = [p \in DOMAIN corpus |-> FALSE]
    /\ idx' = 0
    /\ run' = 2
    /\ pc' = "i_update"
    /\ outcome' = "none"
    /\ UNCHANGED <<corpus, damping_factor, page, probability,
                   n, sample, dict_page, pagerank>>

NextRestart == IterInit \/ UpdatePage \/ CheckConverged \/ Restart

SpecRestart == InitRestart /\ [][NextRestart]_vars

(***************************************************************************)
(* Properties of transition_model (SpecTM).                                *)
(***************************************************************************)
RECURSIVE ScaledSum(_, _, _)
\* the sum over S of f[p] * D, for rationals f[p] whose denominators divide D
ScaledSum(f, S, D) ==
    IF S = {} THEN 0
    ELSE LET p == CHOOSE q \in S : TRUE
         IN  f[p][1] * (D \div f[p][2]) + ScaledSum(f, S \ {p}, D)

\* C1: transition_model returns 1/k for every page when the current page has
\* no links, and otherwise (1-d)/k + d/m for the linked pages and (1-d)/k for
\* the others; it raises nothing.
TransitionValues ==
    pc = "tm_done" =>
        /\ outcome = "returned"
        /\ \A p \in DOMAIN corpus :
             LET k == NumPages(corpus)
                 m == Cardinality(corpus[page])
                 dn == damping_factor[1]
                 dd == damping_factor[2]
                 v == probability[p]
             IN  /\ v[2] > 0
                 /\ IF m = 0 THEN v[1] * k = v[2]
                    ELSE IF p \in corpus[page]
                         THEN v[1] * (dd * k * m) = v[2] * ((dd - dn) * m + dn * k)
                         ELSE v[1] * (dd * k) = v[2] * (dd - dn)

TransitionValuesWitness ==
    /\ pc = "tm_done"
    /\ outcome = "returned"
    /\ NumPages(corpus) = 3
    /\ Cardinality(corpus[page]) = 1
    /\ damping_factor = <<17, 20>>
    /\ \E p \in corpus[page] : probability[p] = <<9, 10>>

\* C2: the mapping transition_model returns has one entry per page, no
\* negative value, and its values sum to 1.
TransitionDistribution ==
    pc = "tm_done" =>
        /\ DOMAIN probability = DOMAIN corpus
        /\ \A p \in DOMAIN corpus : probability[p][1] >= 0 /\ probability[p][2] > 0
        /\ LET D == damping_factor[2] * NumPages(corpus)
                      * Max(1, Cardinality(corpus[page]))
           IN  /\ \A p \in DOMAIN corpus : D % probability[p][2] = 0
               /\ ScaledSum(probability, DOMAIN corpus, D) = D

TransitionDistributionWitness ==
    /\ pc = "tm_done"
    /\ NumPages(corpus) = 3
    /\ corpus[page] = {}
    /\ \A p \in DOMAIN corpus : probability[p] = <<1, 3>>

(***************************************************************************)
(* Properties of sample_pagerank (SpecSample).                             *)
(***************************************************************************)
\* C7: for a non-empty corpus and n >= 1, sample_pagerank raises nothing,
\* visits n+1 pages, each after the first drawn from the transition model of
\* the page before it, and returns for every page its number of visits over
\* n+1, so that the values sum to 1.
SampleFrequencies ==
    (DOMAIN corpus # {} /\ n >= 1) =>
        /\ pc # "s_raised"
        /\ Len(sample) <= n + 1
        /\ \A j \in 1..(Len(sample) - 1) :
             sample[j + 1] \in
                Support(TransitionModel(corpus, sample[j], damping_factor).value)
        /\ pc = "s_done" =>
             /\ outcome = "returned"
             /\ Len(sample) = n + 1
             /\ DOMAIN dict_page = DOMAIN corpus
             /\ \A p \in DOMAIN corpus :
                  /\ dict_page[p][2] > 0
                  /\ dict_page[p][1] >= 0
                  /\ dict_page[p][1] * (n + 1) = Count(sample, p) * dict_page[p][2]
             /\ LET D == n + 1
                IN  /\ \A p \in DOMAIN corpus : D % dict_page[p][2] = 0
                    /\ ScaledSum(dict_page, DOMAIN corpus, D) = D

SampleFrequenciesWitness ==
    /\ pc = "s_done"
    /\ n = 2
    /\ NumPages(corpus) = 3
    /\ sample = <<2, 3, 3>>
    /\ dict_page = <<<<0, 1>>, <<1, 3>>, <<2, 3>>>>

\* C8: sample_pagerank fails, returning no mapping, when the corpus is empty
\* or n <= 0.
SampleRejectsBadInput ==
    (DOMAIN corpus = {} \/ n <= 0) => (outcome # "returned" /\ pc # "s_done")

(***************************************************************************)
(* Properties of iterate_pagerank (SpecIter, FairIter, SpecRestart).       *)
(***************************************************************************)
\* the number of rounds behind the map f: every round raises the highest b by one
RoundsOf(f) == CHOOSE i \in {f[p].b : p \in DOMAIN f} : \A q \in DOMAIN f : f[q].b <= i

RECURSIVE ShareSum(_, _, _)
\* the sum over the pages q of S of prev[q] / m
ShareSum(S, prev, m) ==
    IF S = {} THEN RZero
    ELSE LET q == CHOOSE r \in S : TRUE
         IN  RAdd(RDiv(prev[q], m), ShareSum(S \ {q}, prev, m))

RECURSIVE LinkerSum(_, _, _)
\* the sum over the pages q of S of prev[q] / |out-set of q|
LinkerSum(S, prev, c) ==
    IF S = {} THEN RZero
    ELSE LET q == CHOOSE r \in S : TRUE
         IN  RAdd(RDiv(prev[q], Cardinality(c[q])), LinkerSum(S \ {q}, prev, c))

\* (1-d)/k + d * (what the pages linking to p pass on, a page without links
\* passing rank/k to every page)
ExpectedRank(p, prev) ==
    LET k == NumPages(corpus)
        linkers == {q \in DOMAIN corpus : p \in corpus[q]}
        stuck == {q \in DOMAIN corpus : corpus[q] = {}}
    IN  RAdd(RDiv(ROneMinusDamping, k),
             RDamp(RAdd(LinkerSum(linkers, prev, corpus), ShareSum(stuck, prev, k))))

\* C3: every round starts with prev_rank holding the complete map of the
\* round before it (the uniform map 1/k in the first round), and every page's
\* new rank is (1-d)/k + d * sum of rank_prev(q)/|out-set(q)| over that map,
\* which the round does not change while it writes the new ranks.
SynchronousUpdate ==
    [][ /\ pc = "i_start" =>
             \A p \in DOMAIN corpus : pagerank'[p] = [num |-> <<Lcm>>, a |-> 1, b |-> 0]
        /\ (pc' = "i_update" /\ idx' = 0) => prev_rank' = pagerank'
        /\ (pc = "i_update" /\ idx < NumPages(corpus)) =>
             /\ prev_rank' = prev_rank
             /\ REq(pagerank'[idx + 1], ExpectedRank(idx + 1, prev_rank))
             /\ \A q \in DOMAIN corpus \ {idx + 1} : pagerank'[q] = pagerank[q]
      ]_vars

\* a round in which a page written earlier links to the page written next
SynchronousUpdateWitness ==
    /\ pc = "i_update"
    /\ NumPages(corpus) = 3
    /\ idx = 2
    /\ 3 \in corpus[1]
    /\ corpus[2] = {}
    /\ ~REq(pagerank[1], prev_rank[1])
    /\ ~REq(pagerank[2], prev_rank[2])
    /\ RoundsOf(prev_rank) >= 1

\* |x - y| < 0.001
Close(x, y) == RDistLess(x, y, 1, 1000)

\* C4: the loop ends exactly at the end of a round in which every page moved
\* by less than 0.001; if one page moved by 0.001 or more another round
\* starts; the map returned is the one of the last round.
StopsWhenEveryPageConverged ==
    [][ /\ (pc = "i_update" /\ idx = NumPages(corpus)) =>
             /\ (pc' = "i_done") <=>
                   (\A p \in DOMAIN corpus : Close(pagerank[p], prev_rank[p]))
             /\ pagerank' = pagerank
             /\ pc' # "i_done" => (pc' = "i_update" /\ idx' = 0)
        /\ (pc' = "i_done" /\ pc # "i_done") =>
             /\ pc = "i_update"
             /\ idx = NumPages(corpus)
             /\ outcome' = "returned"
      ]_vars

\* the end of a round in which some pages have converged and others have not
StopsWhenEveryPageConvergedWitness ==
    /\ pc = "i_update"
    /\ idx = NumPages(corpus)
    /\ \E p \in DOMAIN corpus : Close(pagerank[p], prev_rank[p])
    /\ \E p \in DOMAIN corpus : ~Close(pagerank[p], prev_rank[p])

RECURSIVE LiftedSum(_, _, _, _)
\* the sum of the numerators of f over S at level (a, b)
LiftedSum(f, S, a, b) ==
    IF S = {} THEN <<>>
    ELSE LET p == CHOOSE q \in S : TRUE
         IN  BAdd(RLift[f[p], a, b], LiftedSum(f, S \ {p}, a, b))

\* the values of f sum to 1
SumsToOne(f) ==
    LET a == CHOOSE i \in {f[p].a : p \in DOMAIN f} : \A q \in DOMAIN f : f[q].a <= i
        b == CHOOSE i \in {f[p].b : p \in DOMAIN f} : \A q \in DOMAIN f : f[q].b <= i
    IN  LiftedSum(f, DOMAIN f, a, b) = RDen(a, b)

\* pagerank holds the complete map of a round (or the initial map)
BetweenRounds ==
    \/ pc = "i_update" /\ idx \in {0, NumPages(corpus)}
    \/ pc = "i_done"

\* C5: after initialization and after every round the rank map has one entry
\* per page and its values sum to 1 (no rank is negative: the numerators are
\* natural numbers).
RanksAreDistribution ==
    (DOMAIN corpus # {} /\ BetweenRounds) =>
        /\ DOMAIN pagerank = DOMAIN corpus
        /\ SumsToOne(pagerank)

\* a returned map, after several rounds on a corpus with a page without links
RanksAreDistributionWitness ==
    /\ pc = "i_done"
    /\ NumPages(corpus) = 3
    /\ corpus[2] = {}
    /\ corpus[1] = {2}
    /\ RoundsOf(pagerank) >= 3
    /\ ~REq(pagerank[1], pagerank[2])

\* C6: iterate_pagerank reaches its return after finitely many rounds and
\* rests nowhere else.
Terminates == <>[](pc = "i_done" /\ outcome = "returned")

\* a return after more than twenty rounds
TerminatesWitness ==
    /\ pc = "i_done"
    /\ outcome = "returned"
    /\ DOMAIN corpus # {}
    /\ RoundsOf(pagerank) > 20

\* C9: iterate_pagerank fails, returning no mapping, when the corpus is empty.
IterateRejectsEmptyCorpus ==
    DOMAIN corpus = {} => (outcome # "returned" /\ pc # "i_done")

\* the second run has returned
Rerun == pc = "i_done" /\ run = 2 /\ DOMAIN corpus # {}

\* C10 as stated: started again from the map R it returned, the loop returns
\* a map within 0.001 of R at every page.
RestartWithinEpsilon ==
    Rerun => \A p \in DOMAIN corpus : Close(pagerank[p], first_result[p])

\* |x - y| < k * 0.001 * d / (2 * (1 - d))
WithinDriftBoundF[x \in Rank, y \in Rank] ==
    BLess(BMul(BMul(RDistNum[x, y], 2000), damping_factor[2] - damping_factor[1]),
          BMul(BMul(RDen(Max(x.a, y.a), Max(x.b, y.b)), NumPages(corpus)),
               damping_factor[1]))

WithinDriftBound(x, y) == WithinDriftBoundF[x, y]

\* C10 amended: started again from the map R it returned, the loop returns a
\* map within k * 0.001 * d / (2 * (1 - d)) of R at every page, and within
\* 0.001 when the second run ends with its first round.
RestartWithinDriftBound ==
    Rerun =>
        \A p \in DOMAIN corpus :
            /\ WithinDriftBound(pagerank[p], first_result[p])
            /\ RoundsOf(pagerank) = RoundsOf(first_result) + 1
                  => Close(pagerank[p], first_result[p])

\* a second run of two rounds that ends 0.001 or more away from R at a page
RestartWithinDriftBoundWitness ==
    /\ Rerun
    /\ RoundsOf(pagerank) = RoundsOf(first_result) + 2
    /\ \E p \in DOMAIN corpus : ~Close(pagerank[p], first_result[p])

====
